---- MODULE Spec2Model ----
(***************************************************************************)
(* Model of the schema explorer: the Catalog Reader (lib/pg-schema.ts),    *)
(* the DDL Synthesizer (lib/ddl-builder), the Sync Schema command and the  *)
(* schema cache (lib/cache).                                               *)
(*                                                                         *)
(* Text is modelled as a sequence of chunks: a chunk is a string without   *)
(* the separator ".", and the separator is the chunk ".".  Concatenation   *)
(* is \o, and String.split(".") cuts at the "." chunks.                    *)
(***************************************************************************)
EXTENDS Integers, Sequences, FiniteSets, TLC

VARIABLES
    catalog,      \* the live database the client is connected to
    conn,         \* the connection string configured for the run ("" if none)
    pc,           \* position of the sync effect's async function
    connP,        \* settlement of the promise client.connect() returns
    state,        \* SyncState of the Sync Schema command
    cancelled,    \* the effect's cancelled flag
    q,            \* status of each of the seven client.query calls
    results,      \* the array Promise.all fills, one slot per query
    fetchP,       \* settlement of the promise fetchSchemaData returns
    data,         \* the SchemaData fetchSchemaData returned (or NoData)
    synthIn,      \* the snapshots buildSchemaDdl was invoked with
    cache,        \* content of the schema cache file (or NoCache)
    cacheBefore,  \* cache file content when the current attempt started
    wrote,        \* writeSchemaCache was called during the current attempt
    clientOpen,   \* the pg client has not been ended
    attempts,     \* number of launches of the command so far
    snapA, snapB, \* two snapshots handed to the synthesizer
    outA, outB,   \* what the synthesizer returned for them
    fItems, fRules,   \* the items and the exclusion rules given to filterTables
    fOut,             \* what filterTables returned (or nothing yet)
    stored,       \* LocalStorage item "connectionString" (or absent)
    prefs,        \* the connectionString extension preference (or absent)
    credOp,       \* the credentials operation that ran last
    lastGet,      \* what the last getConnectionString returned
    registry,     \* content of the registry file (or absent)
    nextId,       \* number of database ids generated so far
    mpc,          \* position of each ensureMigratedAsync call
    mloc,         \* the locals of each ensureMigratedAsync call
    legacyCache,  \* the legacy cache file exists
    cacheFiles,   \* ids d for which a file schema-<d>.json exists
    doneFlag,     \* LocalStorage item MIGRATION_DONE_KEY
    legacyRules,  \* LocalStorage item "exclusionRules" holds legacy rules
    ruleStore,    \* the rule list stored under "exclusionRules"
    rcall,        \* the addExclusionRule / removeExclusionRule calls
    nextRule,     \* number of rule ids generated so far
    dbRules,      \* ids of the databases that were given the legacy rules
    migrated,     \* ids of the databases the migration wrote to the registry
    initState,    \* InitState of the multi-database Explore Tables view
    activeDbId,   \* the selected database (or null)
    shownCache,   \* the database whose schema cache is displayed (or null)
    shownRules,   \* the database whose exclusion rules are applied (or none)
    loads,        \* the loadDataForDb calls that have not settled
    loadCount     \* number of loadDataForDb calls so far

vars == <<catalog, conn, pc, connP, state, cancelled, q, results, fetchP, data, synthIn,
          cache, cacheBefore, wrote, clientOpen, attempts,
          snapA, snapB, outA, outB, fItems, fRules, fOut,
          stored, prefs, credOp, lastGet, registry, nextId,
          mpc, mloc, legacyCache, cacheFiles, doneFlag, legacyRules,
          ruleStore, rcall, nextRule, dbRules, migrated,
          initState, activeDbId, shownCache, shownRules, loads, loadCount>>

syncVars == <<catalog, conn, pc, connP, state, cancelled, q, results, fetchP, data,
              synthIn, cache, cacheBefore, wrote, clientOpen, attempts>>

synthVars == <<snapA, snapB, outA, outB>>

filterVars == <<fItems, fRules, fOut>>

credVars == <<stored, prefs, credOp, lastGet>>

regVars == <<registry, nextId>>

migVars == <<mpc, mloc, legacyCache, cacheFiles, doneFlag, legacyRules, dbRules,
             migrated>>

ruleVars == <<ruleStore, rcall, nextRule>>
exploreVars == <<initState, activeDbId, shownCache, shownRules, loads, loadCount>>

\* What the steps of one component leave alone.
notSync == <<synthVars, filterVars, credVars, regVars, migVars, ruleVars,
    exploreVars>>
notSynth == <<syncVars, filterVars, credVars, regVars, migVars, ruleVars,
    exploreVars>>
notFilter == <<syncVars, synthVars, credVars, regVars, migVars, ruleVars,
    exploreVars>>
notCred == <<syncVars, synthVars, filterVars, regVars, migVars, ruleVars,
    exploreVars>>
notReg == <<syncVars, synthVars, filterVars, credVars, ruleVars,
    exploreVars>>
notRules == <<syncVars, synthVars, filterVars, credVars, regVars, migVars,
    exploreVars>>
notExplore == <<syncVars, synthVars, filterVars, credVars, regVars, migVars,
    ruleVars>>

-----------------------------------------------------------------------------
(* Bounds *)

MaxAttempts == 2

-----------------------------------------------------------------------------
(* Generic helpers *)

NULL == "<null>"
NULLNUM == -1

RECURSIVE Perms(_)
Perms(S) ==
    IF S = {} THEN {<<>>}
    ELSE UNION {{<<x>> \o p : p \in Perms(S \ {x})} : x \in S}

Range(s) == {s[i] : i \in 1..Len(s)}

\* Collation of the chunks used in names.
StrOrder == <<".", "_", "a", "b", "fk_items_orders", "fk_ok", "ft", "items",
              "orders", "orders_pkey", "pg_catalog", "pg_class", "public",
              "sales", "status", "uq_name", "users", "users_name_idx",
              "users_pkey", "v", "v_fk", "v_pkey", "v_uq">>

Rank(s) == CHOOSE i \in 1..Len(StrOrder) : StrOrder[i] = s

\* Lexicographic order on tuples of naturals.
RECURSIVE LexLess(_, _)
LexLess(a, b) ==
    IF b = <<>> THEN FALSE
    ELSE IF a = <<>> THEN TRUE
    ELSE IF a[1] # b[1] THEN a[1] < b[1]
    ELSE LexLess(Tail(a), Tail(b))

\* The key of a text, chunk by chunk, terminated so that a prefix sorts first.
TextKey(t) == [i \in 1..Len(t) |-> Rank(t[i])] \o <<0>>

\* Array.prototype.sort with a comparator on Key: a stable sort.  The element
\* at index i moves behind every element with a smaller key and behind the
\* earlier elements with an equal key.
SortBy(s, Key(_)) ==
    LET pos(i) == Cardinality({j \in 1..Len(s) :
                      \/ LexLess(Key(s[j]), Key(s[i]))
                      \/ (j < i /\ Key(s[j]) = Key(s[i]))}) + 1
    IN  [p \in 1..Len(s) |-> s[CHOOSE i \in 1..Len(s) : pos(i) = p]]

-----------------------------------------------------------------------------
(* The catalog of the live database: the information_schema and pg_catalog  *)
(* relations the seven queries read.  Schema, relation and type names are   *)
(* texts (chunk sequences); column, constraint and index names are strings. *)

TableRow(s, t, ty) == [table_schema |-> s, table_name |-> t, table_type |-> ty]

ColumnRow(s, t, c, pos, dt, us, un, nullable, def, len, prec, scale) ==
    [table_schema |-> s, table_name |-> t, column_name |-> c,
     ordinal_position |-> pos, data_type |-> dt, udt_schema |-> us,
     udt_name |-> un, is_nullable |-> nullable, column_default |-> def,
     character_maximum_length |-> len, numeric_precision |-> prec,
     numeric_scale |-> scale]

EnumTypeRow(n, t, l, o) ==
    [nspname |-> n, typname |-> t, enumlabel |-> l, enumsortorder |-> o]

IndexRow(s, t, n, d) ==
    [schemaname |-> s, tablename |-> t, indexname |-> n, indexdef |-> d]

\* One constraint of the database: its key columns in key order and, for a
\* foreign key, the unique constraint it references.
Constraint(s, t, n, ty, cols, us, un) ==
    [schema |-> s, table |-> t, name |-> n, type |-> ty, cols |-> cols,
     unique_schema |-> us, unique_name |-> un]

Public == <<"public">>
Sales == <<"sales">>
PgCatalog == <<"pg_catalog">>

SystemSchemas == {<<"pg_catalog">>, <<"information_schema">>}

CatEmpty ==
    [tables |-> {TableRow(PgCatalog, <<"pg_class">>, "BASE TABLE")},
     columns |-> {ColumnRow(PgCatalog, <<"pg_class">>, "name", 1, "name",
                            PgCatalog, <<"name">>, "NO", NULL,
                            NULLNUM, NULLNUM, NULLNUM)},
     enums |-> {}, constraints |-> {}, indexes |-> {}]

CatUsers ==
    [tables |-> {TableRow(Public, <<"users">>, "BASE TABLE"),
                 TableRow(Public, <<"v">>, "VIEW"),
                 TableRow(Public, <<"a", ".", "b">>, "BASE TABLE"),
                 TableRow(Public, <<"ft">>, "FOREIGN")},
     columns |-> {
        ColumnRow(Public, <<"users">>, "id", 1, "integer", PgCatalog,
                  <<"int4">>, "NO", NULL, NULLNUM, 32, 0),
        ColumnRow(Public, <<"users">>, "name", 2, "character varying",
                  PgCatalog, <<"varchar">>, "YES", NULL, 100, NULLNUM, NULLNUM),
        ColumnRow(Public, <<"users">>, "status", 3, "USER-DEFINED", Public,
                  <<"status">>, "NO", "'active'", NULLNUM, NULLNUM, NULLNUM),
        ColumnRow(Public, <<"v">>, "id", 1, "integer", PgCatalog,
                  <<"int4">>, "YES", NULL, NULLNUM, 32, 0),
        ColumnRow(Public, <<"ft">>, "id", 1, "text", PgCatalog,
                  <<"text">>, "YES", NULL, NULLNUM, NULLNUM, NULLNUM)},
     enums |-> {EnumTypeRow(Public, <<"status">>, "active", 1),
                EnumTypeRow(Public, <<"status">>, "inactive", 2)},
     constraints |-> {
        Constraint(Public, <<"users">>, "users_pkey", "PRIMARY KEY",
                   <<"id">>, <<>>, ""),
        Constraint(Public, <<"users">>, "uq_name", "UNIQUE",
                   <<"name">>, <<>>, "")},
     indexes |-> {
        IndexRow(Public, <<"users">>, "users_pkey",
                 "CREATE UNIQUE INDEX users_pkey ON public.users (id)"),
        IndexRow(Public, <<"users">>, "users_name_idx",
                 "CREATE INDEX users_name_idx ON public.users (name)")}]

CatOrders ==
    [tables |-> {TableRow(Public, <<"orders">>, "BASE TABLE"),
                 TableRow(Sales, <<"items">>, "BASE TABLE")},
     columns |-> {
        ColumnRow(Public, <<"orders">>, "id", 1, "integer", PgCatalog,
                  <<"int4">>, "NO", NULL, NULLNUM, 32, 0),
        ColumnRow(Public, <<"orders">>, "line_no", 2, "numeric", PgCatalog,
                  <<"numeric">>, "NO", NULL, NULLNUM, 10, 2),
        ColumnRow(Sales, <<"items">>, "order_id", 1, "integer", PgCatalog,
                  <<"int4">>, "YES", NULL, NULLNUM, 32, 0),
        ColumnRow(Sales, <<"items">>, "line_no", 2, "ARRAY", PgCatalog,
                  <<"_", "int4">>, "YES", NULL, NULLNUM, NULLNUM, NULLNUM)},
     enums |-> {},
     constraints |-> {
        Constraint(Public, <<"orders">>, "orders_pkey", "PRIMARY KEY",
                   <<"id", "line_no">>, <<>>, ""),
        Constraint(Sales, <<"items">>, "fk_items_orders", "FOREIGN KEY",
                   <<"order_id", "line_no">>, Public, "orders_pkey")},
     indexes |-> {
        IndexRow(Public, <<"orders">>, "orders_pkey",
                 "CREATE UNIQUE INDEX orders_pkey ON public.orders (id, line_no)")}]

Catalogs == {CatEmpty, CatUsers, CatOrders}

\* information_schema.table_constraints
TableConstraints(cat) ==
    {[constraint_schema |-> c.schema, constraint_name |-> c.name,
      table_schema |-> c.schema, table_name |-> c.table,
      constraint_type |-> c.type] : c \in cat.constraints}

\* information_schema.key_column_usage: one row per key column of a
\* constraint, with its position in the key.
KeyColumnUsage(cat) ==
    UNION {{[constraint_schema |-> c.schema, constraint_name |-> c.name,
             table_schema |-> c.schema, table_name |-> c.table,
             column_name |-> c.cols[i], ordinal_position |-> i]
            : i \in 1..Len(c.cols)} : c \in cat.constraints}

\* information_schema.referential_constraints
ReferentialConstraints(cat) ==
    {[constraint_schema |-> c.schema, constraint_name |-> c.name,
      unique_constraint_schema |-> c.unique_schema,
      unique_constraint_name |-> c.unique_name]
     : c \in {d \in cat.constraints : d.type = "FOREIGN KEY"}}

\* The constraint a foreign key references.
Referenced(cat, c) ==
    CHOOSE u \in cat.constraints :
        u.schema = c.unique_schema /\ u.name = c.unique_name

\* information_schema.constraint_column_usage: the columns a constraint uses,
\* without a position; for a foreign key these are the referenced columns.
ConstraintColumnUsage(cat) ==
    UNION {LET u == IF c.type = "FOREIGN KEY" THEN Referenced(cat, c) ELSE c
           IN  {[constraint_schema |-> c.schema, constraint_name |-> c.name,
                 table_schema |-> u.schema, table_name |-> u.table,
                 column_name |-> u.cols[i]] : i \in 1..Len(u.cols)}
           : c \in cat.constraints}

-----------------------------------------------------------------------------
(* The Catalog Reader's seven queries.  A query's value is the set of row   *)
(* sequences the database may answer with: the selected rows in any order   *)
(* that agrees with the ORDER BY clause (rows equal on the ORDER BY key may *)
(* come in either order).                                                   *)

OrderedBy(S, Key(_)) ==
    {p \in Perms(S) :
        \A i \in 1..(Len(p) - 1) : ~ LexLess(Key(p[i + 1]), Key(p[i]))}

UserSchema(s) == s \notin SystemSchemas

TABLES_QUERY(cat) ==
    LET rows == {r \in cat.tables :
                    /\ UserSchema(r.table_schema)
                    /\ r.table_type \in {"BASE TABLE", "VIEW"}}
        Key(r) == TextKey(r.table_schema) \o TextKey(r.table_name)
    IN  OrderedBy(rows, Key)

COLUMNS_QUERY(cat) ==
    LET rows == {r \in cat.columns : UserSchema(r.table_schema)}
        Key(r) == TextKey(r.table_schema) \o TextKey(r.table_name)
                    \o <<r.ordinal_position>>
    IN  OrderedBy(rows, Key)

ENUMS_QUERY(cat) ==
    LET rows == {r \in cat.enums : UserSchema(r.nspname)}
        Key(r) == TextKey(r.nspname) \o TextKey(r.typname)
                    \o <<r.enumsortorder>>
    IN  OrderedBy(rows, Key)

\* table_constraints JOIN key_column_usage ON constraint_name, table_schema
KeyRows(cat, type) ==
    {[table_schema |-> tc.table_schema, table_name |-> tc.table_name,
      constraint_name |-> tc.constraint_name, column_name |-> kcu.column_name,
      ordinal_position |-> kcu.ordinal_position]
     : <<tc, kcu>> \in
         {j \in TableConstraints(cat) \X KeyColumnUsage(cat) :
            /\ j[1].constraint_name = j[2].constraint_name
            /\ j[1].table_schema = j[2].table_schema
            /\ j[1].constraint_type = type
            /\ UserSchema(j[1].table_schema)}}

PRIMARY_KEYS_QUERY(cat) ==
    LET Key(r) == TextKey(r.table_schema) \o TextKey(r.table_name)
                    \o <<r.ordinal_position>>
    IN  OrderedBy(KeyRows(cat, "PRIMARY KEY"), Key)

UNIQUES_QUERY(cat) ==
    LET Key(r) == TextKey(r.table_schema) \o TextKey(r.table_name)
                    \o <<Rank(r.constraint_name), r.ordinal_position>>
    IN  OrderedBy(KeyRows(cat, "UNIQUE"), Key)

\* referential_constraints rc JOIN key_column_usage fk ON the constraint
\* JOIN constraint_column_usage pk ON the referenced unique constraint.
\* Neither join condition relates fk.ordinal_position to a position of pk.
FOREIGN_KEYS_QUERY(cat) ==
    LET rows ==
          {[table_schema |-> j[2].table_schema, table_name |-> j[2].table_name,
            column_name |-> j[2].column_name,
            ordinal_position |-> j[2].ordinal_position,
            constraint_name |-> j[1].constraint_name,
            ref_table_schema |-> j[3].table_schema,
            ref_table_name |-> j[3].table_name,
            ref_column_name |-> j[3].column_name]
           : j \in
              {k \in ReferentialConstraints(cat) \X KeyColumnUsage(cat)
                       \X ConstraintColumnUsage(cat) :
                 /\ k[1].constraint_schema = k[2].constraint_schema
                 /\ k[1].constraint_name = k[2].constraint_name
                 /\ k[1].unique_constraint_schema = k[3].constraint_schema
                 /\ k[1].unique_constraint_name = k[3].constraint_name
                 /\ UserSchema(k[2].table_schema)}}
        Key(r) == TextKey(r.table_schema) \o TextKey(r.table_name)
                    \o <<Rank(r.constraint_name), r.ordinal_position>>
    IN  OrderedBy(rows, Key)

INDEXES_QUERY(cat) ==
    LET rows == {r \in cat.indexes : UserSchema(r.schemaname)}
        Key(r) == TextKey(r.schemaname) \o TextKey(r.tablename)
    IN  OrderedBy(rows, Key)

\* The seven queries in the order fetchSchemaData passes them to Promise.all.
NumQueries == 7
Queries == 1..NumQueries

QueryRows(i, cat) ==
    CASE i = 1 -> TABLES_QUERY(cat)
      [] i = 2 -> COLUMNS_QUERY(cat)
      [] i = 3 -> ENUMS_QUERY(cat)
      [] i = 4 -> PRIMARY_KEYS_QUERY(cat)
      [] i = 5 -> UNIQUES_QUERY(cat)
      [] i = 6 -> FOREIGN_KEYS_QUERY(cat)
      [] i = 7 -> INDEXES_QUERY(cat)

\* The return statement of fetchSchemaData: slot i of the Promise.all result
\* goes to the field of query i.
SchemaData(res) ==
    [tables |-> res[1], columns |-> res[2], enums |-> res[3],
     primaryKeys |-> res[4], uniques |-> res[5], foreignKeys |-> res[6],
     indexes |-> res[7]]

-----------------------------------------------------------------------------
(* The DDL Synthesizer, buildSchemaDdl of lib/ddl-builder.  DDL text is a    *)
(* sequence of lines, a line is a sequence of string tokens.                *)

\* The qualified name <schema>.<relation> that keys both mappings.
Qualified(s, t) == s \o <<".">> \o t

\* The distinct values of S as a sequence in ascending Key order.
Ascending(S, Key(_)) ==
    CHOOSE p \in Perms(S) :
        \A i \in 1..(Len(p) - 1) : LexLess(Key(p[i]), Key(p[i + 1]))

\* A variant that keeps the labels in the order their rows arrived.
EnumLabelsAsGiven(snap, us, un) ==
    LET Mine(r) == r.nspname = us /\ r.typname = un
        rows == SelectSeq(snap.enums, Mine)
    IN  [i \in 1..Len(rows) |-> rows[i].enumlabel]

\* Step 1: the labels of the enum (type schema, type name) in sort order.
EnumLabels(snap, us, un) ==
    LET Mine(r) == r.nspname = us /\ r.typname = un
        Key(r) == <<r.enumsortorder>>
        rows == SortBy(SelectSeq(snap.enums, Mine), Key)
    IN  [i \in 1..Len(rows) |-> rows[i].enumlabel]

\* A variant that keeps the columns in the order their rows arrived.
ColumnsAsGiven(snap, t) ==
    LET Mine(r) == r.table_schema = t.table_schema
                     /\ r.table_name = t.table_name
    IN  SelectSeq(snap.columns, Mine)

\* Step 2: the columns of a relation by ordinal position.
ColumnsOf(snap, t) ==
    LET Mine(r) == r.table_schema = t.table_schema
                     /\ r.table_name = t.table_name
        Key(r) == <<r.ordinal_position>>
    IN  SortBy(SelectSeq(snap.columns, Mine), Key)

\* Step 3: the type text of a column.
FormatType(snap, c) ==
    LET labels == EnumLabels(snap, c.udt_schema, c.udt_name)
    IN  IF labels # <<>>
          THEN <<"enum">> \o c.udt_name \o <<"(">> \o labels \o <<")">>
        ELSE IF c.udt_name # <<>> /\ c.udt_name[1] = "_"
          THEN Tail(c.udt_name) \o <<"[]">>
        ELSE IF c.character_maximum_length # NULLNUM
          THEN <<c.data_type, "(", ToString(c.character_maximum_length), ")">>
        ELSE IF c.numeric_precision # NULLNUM
          THEN <<c.data_type, "(", ToString(c.numeric_precision)>>
                 \o (IF c.numeric_scale # NULLNUM
                       THEN <<",", ToString(c.numeric_scale)>> ELSE <<>>)
                 \o <<")">>
        ELSE <<c.data_type>>

ColumnDef(snap, c) ==
    <<"  ", c.column_name>> \o FormatType(snap, c)
      \o (IF c.is_nullable = "NO" THEN <<"NOT NULL">> ELSE <<>>)
      \o (IF c.column_default # NULL
            THEN <<"DEFAULT", c.column_default>> ELSE <<>>)

ColumnDefs(snap, t) ==
    LET cols == ColumnsOf(snap, t)
    IN  [i \in 1..Len(cols) |-> ColumnDef(snap, cols[i])]

\* Steps 4-6: the rows of one relation grouped by constraint name, the
\* groups in name order, each group sorted by ordinal position.
RowsOf(rows, t) ==
    LET Mine(r) == r.table_schema = t.table_schema
                     /\ r.table_name = t.table_name
    IN  SelectSeq(rows, Mine)

GroupNames(rows) ==
    LET Key(n) == <<Rank(n)>>
    IN  Ascending({rows[i].constraint_name : i \in 1..Len(rows)}, Key)

Group(rows, name) ==
    LET Mine(r) == r.constraint_name = name
        Key(r) == <<r.ordinal_position>>
    IN  SortBy(SelectSeq(rows, Mine), Key)

KeyClause(word, name, group) ==
    <<"  CONSTRAINT", name, word, "(">>
      \o [i \in 1..Len(group) |-> group[i].column_name] \o <<")">>

KeyClauses(word, rows, t) ==
    LET mine == RowsOf(rows, t)
        names == GroupNames(mine)
    IN  [i \in 1..Len(names) |-> KeyClause(word, names[i], Group(mine, names[i]))]

NonNull(s) == LET Present(x) == x # NULL IN SelectSeq(s, Present)

\* A variant that emits the clause whatever the lengths of the two lists.
ForeignKeyClauseUnchecked(t, name, group) ==
    LET local == NonNull([i \in 1..Len(group) |-> group[i].column_name])
        refs == NonNull([i \in 1..Len(group) |-> group[i].ref_column_name])
        target == IF group[1].ref_table_schema # t.table_schema
                    THEN Qualified(group[1].ref_table_schema,
                                   group[1].ref_table_name)
                    ELSE group[1].ref_table_name
    IN  << <<"  CONSTRAINT", name, "FOREIGN KEY", "(">> \o local
             \o <<")", "REFERENCES">> \o target \o <<"(">> \o refs
             \o <<")">> >>

\* Step 6: local column i references referenced column i of the group; a
\* group whose two column lists differ in length yields no clause.

ForeignKeyClause(t, name, group) ==
    LET local == NonNull([i \in 1..Len(group) |-> group[i].column_name])
        refs == NonNull([i \in 1..Len(group) |-> group[i].ref_column_name])
        target == IF group[1].ref_table_schema # t.table_schema
                    THEN Qualified(group[1].ref_table_schema,
                                   group[1].ref_table_name)
                    ELSE group[1].ref_table_name
    IN  IF Len(local) # Len(refs) THEN <<>>
        ELSE << <<"  CONSTRAINT", name, "FOREIGN KEY", "(">> \o local
                  \o <<")", "REFERENCES">> \o target \o <<"(">> \o refs
                  \o <<")">> >>

RECURSIVE Concat(_)
Concat(ss) == IF ss = <<>> THEN <<>> ELSE ss[1] \o Concat(Tail(ss))

ForeignKeyClauses(snap, t) ==
    LET mine == RowsOf(snap.foreignKeys, t)
        names == GroupNames(mine)
    IN  Concat([i \in 1..Len(names) |->
                  ForeignKeyClause(t, names[i], Group(mine, names[i]))])

\* Step 8: the index definitions of a relation, in index name order.
IndexLines(snap, t) ==
    LET Mine(r) == r.schemaname = t.table_schema /\ r.tablename = t.table_name
        Key(r) == <<Rank(r.indexname)>>
        rows == SortBy(SelectSeq(snap.indexes, Mine), Key)
    IN  [i \in 1..Len(rows) |-> <<rows[i].indexdef>>]

\* A variant that tests for the wrong catalog kind.
KindOfTableLiteral(t) == IF t.table_type = "TABLE" THEN "table" ELSE "view"

\* Step 9: the kind of a relation.
KindOf(t) == IF t.table_type = "BASE TABLE" THEN "table" ELSE "view"

\* A variant that emits the constraint clauses for every kind of relation.
RelationDdlAnyKind(snap, t) ==
    LET key == Qualified(t.table_schema, t.table_name)
    IN  << <<IF KindOf(t) = "table" THEN "CREATE TABLE" ELSE "VIEW">>
             \o key \o <<"(">> >>
          \o ColumnDefs(snap, t)
          \o KeyClauses("PRIMARY KEY", snap.primaryKeys, t)
          \o KeyClauses("UNIQUE", snap.uniques, t)
          \o ForeignKeyClauses(snap, t)
          \o << <<")">> >>
          \o IndexLines(snap, t)

\* Step 7: the statement of one relation.
RelationDdl(snap, t) ==
    LET key == Qualified(t.table_schema, t.table_name)
    IN  IF KindOf(t) = "table"
          THEN << <<"CREATE TABLE">> \o key \o <<"(">> >>
                 \o ColumnDefs(snap, t)
                 \o KeyClauses("PRIMARY KEY", snap.primaryKeys, t)
                 \o KeyClauses("UNIQUE", snap.uniques, t)
                 \o ForeignKeyClauses(snap, t)
                 \o << <<")">> >>
                 \o IndexLines(snap, t)
          ELSE << <<"VIEW">> \o key \o <<"(">> >>
                 \o ColumnDefs(snap, t)
                 \o << <<")">> >>
                 \o IndexLines(snap, t)

\* A Map filled by set(): the last row with a given key wins.
LastWith(rows, key) ==
    rows[CHOOSE i \in 1..Len(rows) :
           /\ Qualified(rows[i].table_schema, rows[i].table_name) = key
           /\ \A j \in (i + 1)..Len(rows) :
                Qualified(rows[j].table_schema, rows[j].table_name) # key]

\* A variant that keys the mappings by the relations that have column rows.
RelationKeysWithColumns(snap) ==
    {Qualified(snap.tables[i].table_schema, snap.tables[i].table_name)
       : i \in {j \in 1..Len(snap.tables) :
                  \E c \in 1..Len(snap.columns) :
                     /\ snap.columns[c].table_schema = snap.tables[j].table_schema
                     /\ snap.columns[c].table_name = snap.tables[j].table_name}}

RelationKeys(snap) ==
    {Qualified(snap.tables[i].table_schema, snap.tables[i].table_name)
       : i \in 1..Len(snap.tables)}

buildSchemaDdl(snap) ==
    [tableDdls |-> [k \in RelationKeys(snap) |->
                      RelationDdl(snap, LastWith(snap.tables, k))],
     tableTypes |-> [k \in RelationKeys(snap) |->
                      KindOf(LastWith(snap.tables, k))]]

-----------------------------------------------------------------------------
(* The schema cache file (lib/cache) and the cache assembly of Sync Schema. *)

\* A variant that cuts at the last separator instead of the first.
SplitLast(key) ==
    IF \E i \in 1..Len(key) : key[i] = "."
      THEN SubSeq(key, 1, (CHOOSE i \in 1..Len(key) :
                             /\ key[i] = "."
                             /\ \A j \in (i + 1)..Len(key) : key[j] # ".") - 1)
      ELSE key

\* key.split(".")[0]: the text before the first separator, the whole text
\* when it has none.
SplitFirst(key) ==
    IF \E i \in 1..Len(key) : key[i] = "."
      THEN SubSeq(key, 1, (CHOOSE i \in 1..Len(key) :
                             /\ key[i] = "."
                             /\ \A j \in 1..(i - 1) : key[j] # ".") - 1)
      ELSE key

\* A variant that ignores the kind mapping.
TypeAlwaysTable(tableTypes, key) == "table"

\* tableTypes.get(key) ?? "table"
TypeOrTable(tableTypes, key) ==
    IF key \in DOMAIN tableTypes THEN tableTypes[key] ELSE "table"

\* The loop over tableDdls that fills the tables record of the cache.
AssembleCache(built) ==
    [tables |-> [key \in DOMAIN built.tableDdls |->
                   [ddl |-> built.tableDdls[key],
                    schema |-> SplitFirst(key),
                    type |-> TypeOrTable(built.tableTypes, key)]]]

NoFile == <<>>

\* writeSchemaCache: the file holds the serialized cache.
writeSchemaCache(c) == <<c>>

-----------------------------------------------------------------------------
(* The Sync Schema command: the effect's async function, step by step.      *)

\* A variant that waits for every query to settle and then fulfils with
\* whatever results there are (the behaviour of Promise.allSettled).
PromiseAllSettled(qs) ==
    IF \A i \in Queries : qs[i] \in {"ok", "failed"} THEN "fulfilled"
    ELSE "pending"

\* Promise.all over the seven query promises: rejected as soon as one is
\* rejected, fulfilled once all are fulfilled.
PromiseAll(qs) ==
    IF \E i \in Queries : qs[i] = "failed" THEN "rejected"
    ELSE IF \A i \in Queries : qs[i] = "ok" THEN "fulfilled"
    ELSE "pending"

Rows(slot) == IF slot = <<>> THEN <<>> ELSE slot[1]

\* What fetchSchemaData resolves with once Promise.all is fulfilled.
FetchValue(p, res) ==
    IF p = "fulfilled" THEN <<SchemaData([i \in Queries |-> Rows(res[i])])>>
    ELSE <<>>

Fresh ==
    /\ pc = "getConn"
    /\ connP = "none"
    /\ state = "checking"
    /\ cancelled = FALSE
    /\ q = [i \in Queries |-> "idle"]
    /\ results = [i \in Queries |-> <<>>]
    /\ fetchP = "none"
    /\ data = <<>>
    /\ synthIn = <<>>
    /\ wrote = FALSE
    /\ clientOpen = FALSE

SynthIdle ==
    /\ snapA = <<>>
    /\ snapB = <<>>
    /\ outA = <<>>
    /\ outB = <<>>

FilterIdle ==
    /\ fItems = <<>>
    /\ fRules = <<>>
    /\ fOut = <<>>

CredIdle ==
    /\ stored = <<>>
    /\ prefs = <<>>
    /\ credOp = <<>>
    /\ lastGet = <<>>

RegIdle ==
    /\ registry = <<>>
    /\ nextId = 0

MigIdle ==
    /\ mpc = <<>>
    /\ mloc = <<>>
    /\ legacyCache = FALSE
    /\ cacheFiles = {}
    /\ doneFlag = FALSE
    /\ legacyRules = FALSE
    /\ dbRules = {}
    /\ migrated = {}

RulesIdle ==
    /\ ruleStore = <<>>
    /\ rcall = <<>>
    /\ nextRule = 0

ExploreIdle ==
    /\ initState = "loading"
    /\ activeDbId = 0
    /\ shownCache = 0
    /\ shownRules = 0
    /\ loads = {}
    /\ loadCount = 0

SyncIdle ==
    /\ catalog = CatEmpty
    /\ conn = ""
    /\ Fresh
    /\ cache = NoFile
    /\ cacheBefore = NoFile
    /\ attempts = 1

\* What getConnectionString() resolves with: "" when neither the stored
\* value nor the preference holds a connection string.
Configured == {"", "postgres://db"}

Init ==
    /\ ExploreIdle
    /\ catalog \in Catalogs
    /\ conn \in Configured
    /\ Fresh
    /\ cache = NoFile
    /\ cacheBefore = NoFile
    /\ attempts = 1
    /\ SynthIdle
    /\ FilterIdle
    /\ CredIdle
    /\ RegIdle
    /\ MigIdle
    /\ RulesIdle

\* await getConnectionString(), then the cancelled and the !conn checks.
GetConn ==
    /\ pc = "getConn"
    /\ IF cancelled THEN
           /\ pc' = "returned"
           /\ UNCHANGED <<state, connP, clientOpen>>
       ELSE IF conn = "" THEN
           /\ state' = "no-credentials"
           /\ pc' = "returned"
           /\ UNCHANGED <<connP, clientOpen>>
       ELSE
           /\ state' = "loading"
           /\ pc' = "connecting"
           /\ connP' = "pending"
           /\ clientOpen' = TRUE
    /\ UNCHANGED <<conn, catalog, cancelled, q, results, fetchP, data, synthIn,
                   cache, cacheBefore, wrote, attempts>>
    /\ UNCHANGED notSync

\* await client.connect() resolves; unless cancelled, fetchSchemaData issues
\* the seven queries and awaits Promise.all.
ConnectOk ==
    /\ pc = "connecting"
    /\ connP' = "fulfilled"
    /\ IF cancelled THEN
           /\ pc' = "finally"
           /\ UNCHANGED <<q, fetchP>>
       ELSE
           /\ pc' = "fetching"
           /\ q' = [i \in Queries |-> "pending"]
           /\ fetchP' = "pending"
    /\ UNCHANGED <<conn, catalog, state, cancelled, results, data, synthIn, cache,
                   cacheBefore, wrote, clientOpen, attempts>>
    /\ UNCHANGED notSync

\* await client.connect() rejects: the catch block.
ConnectFail ==
    /\ pc = "connecting"
    /\ connP' = "rejected"
    /\ state' = IF cancelled THEN state ELSE "error"
    /\ pc' = "finally"
    /\ UNCHANGED <<conn, catalog, cancelled, q, results, fetchP, data, synthIn,
                   cache, cacheBefore, wrote, clientOpen, attempts>>
    /\ UNCHANGED notSync

\* A variant that stores the results in the order the queries complete.
StoreInArrivalOrder(res, i, rows) ==
    [res EXCEPT ![CHOOSE k \in Queries :
                    res[k] = <<>> /\ \A j \in 1..(k - 1) : res[j] # <<>>]
                  = <<rows>>]

\* Query i completes with its rows; Promise.all stores them in slot i.
StoreResult(res, i, rows) == [res EXCEPT ![i] = <<rows>>]

QueryOk(i) ==
    /\ pc = "fetching"
    /\ fetchP = "pending"
    /\ q[i] = "pending"
    /\ \E rows \in QueryRows(i, catalog) :
         /\ results' = StoreResult(results, i, rows)
         /\ q' = [q EXCEPT ![i] = "ok"]
         /\ fetchP' = PromiseAll(q')
         /\ data' = FetchValue(fetchP', results')
    /\ UNCHANGED <<conn, catalog, pc, connP, state, cancelled, synthIn, cache,
                   cacheBefore, wrote, clientOpen, attempts>>
    /\ UNCHANGED notSync

\* Query i fails.
QueryFail(i) ==
    /\ pc = "fetching"
    /\ fetchP = "pending"
    /\ q[i] = "pending"
    /\ q' = [q EXCEPT ![i] = "failed"]
    /\ fetchP' = PromiseAll(q')
    /\ data' = FetchValue(fetchP', results)
    /\ UNCHANGED <<conn, catalog, pc, connP, state, cancelled, results, synthIn,
                   cache, cacheBefore, wrote, clientOpen, attempts>>
    /\ UNCHANGED notSync

\* A variant without the cancelled check after the read.
FetchFulfilledUnchecked ==
    /\ pc = "fetching"
    /\ fetchP = "fulfilled"
    /\ synthIn' = Append(synthIn, data[1])
    /\ cache' = writeSchemaCache(AssembleCache(buildSchemaDdl(data[1])))
    /\ wrote' = TRUE
    /\ state' = IF cancelled THEN state ELSE "success"
    /\ pc' = IF cancelled THEN "finally" ELSE "toast"
    /\ UNCHANGED <<conn, catalog, connP, cancelled, q, results, fetchP, data,
                   cacheBefore, clientOpen, attempts>>
    /\ UNCHANGED notSync

\* await fetchSchemaData(client) resolves: the cancelled check, then the
\* synthesis, the cache assembly and the cache write, all in one turn; the
\* function then awaits the success toast.
FetchFulfilled ==
    /\ pc = "fetching"
    /\ fetchP = "fulfilled"
    /\ IF cancelled THEN
           UNCHANGED <<synthIn, cache, wrote, state>>
       ELSE
           /\ synthIn' = Append(synthIn, data[1])
           /\ cache' = writeSchemaCache(AssembleCache(buildSchemaDdl(data[1])))
           /\ wrote' = TRUE
           /\ state' = "success"
    /\ pc' = IF cancelled THEN "finally" ELSE "toast"
    /\ UNCHANGED <<conn, catalog, connP, cancelled, q, results, fetchP, data,
                   cacheBefore, clientOpen, attempts>>
    /\ UNCHANGED notSync

\* A variant whose catch block caches what the queries that succeeded gave.
FetchRejectedCachesPartial ==
    /\ pc = "fetching"
    /\ fetchP = "rejected"
    /\ state' = IF cancelled THEN state ELSE "error"
    /\ cache' = writeSchemaCache(AssembleCache(buildSchemaDdl(
                    SchemaData([i \in Queries |-> Rows(results[i])]))))
    /\ wrote' = TRUE
    /\ pc' = "finally"
    /\ UNCHANGED <<conn, catalog, connP, cancelled, q, results, fetchP, data,
                   synthIn, cacheBefore, clientOpen, attempts>>
    /\ UNCHANGED notSync

\* await fetchSchemaData(client) rejects: the catch block.
FetchRejected ==
    /\ pc = "fetching"
    /\ fetchP = "rejected"
    /\ state' = IF cancelled THEN state ELSE "error"
    /\ pc' = "finally"
    /\ UNCHANGED <<conn, catalog, connP, cancelled, q, results, fetchP, data,
                   synthIn, cache, cacheBefore, wrote, clientOpen, attempts>>
    /\ UNCHANGED notSync

\* await showToast(success) resolves: the try block is over.
ToastShown ==
    /\ pc = "toast"
    /\ pc' = "finally"
    /\ UNCHANGED <<conn, catalog, connP, state, cancelled, q, results, fetchP,
                   data, synthIn, cache, cacheBefore, wrote, clientOpen,
                   attempts>>
    /\ UNCHANGED notSync

\* await showToast(success) rejects: the catch block.
ToastFailed ==
    /\ pc = "toast"
    /\ state' = IF cancelled THEN state ELSE "error"
    /\ pc' = "finally"
    /\ UNCHANGED <<conn, catalog, connP, cancelled, q, results, fetchP, data,
                   synthIn, cache, cacheBefore, wrote, clientOpen, attempts>>
    /\ UNCHANGED notSync

\* finally: client.end(); the queries still outstanding end with it.
Finally ==
    /\ pc = "finally"
    /\ clientOpen' = FALSE
    /\ q' = [i \in Queries |-> IF q[i] = "pending" THEN "failed" ELSE q[i]]
    /\ pc' = "returned"
    /\ UNCHANGED <<conn, catalog, connP, state, cancelled, results, fetchP, data,
                   synthIn, cache, cacheBefore, wrote, attempts>>
    /\ UNCHANGED notSync

\* The effect's cleanup function.
Cancel ==
    /\ ~ cancelled
    /\ pc # "returned"
    /\ cancelled' = TRUE
    /\ UNCHANGED <<conn, catalog, pc, connP, state, q, results, fetchP, data,
                   synthIn, cache, cacheBefore, wrote, clientOpen, attempts>>
    /\ UNCHANGED notSync

\* The command is launched again, against the database as it is then.
Relaunch ==
    /\ pc = "returned"
    /\ attempts < MaxAttempts
    /\ attempts' = attempts + 1
    /\ catalog' \in Catalogs
    /\ conn' \in Configured
    /\ cacheBefore' = cache
    /\ pc' = "getConn"
    /\ connP' = "none"
    /\ state' = "checking"
    /\ cancelled' = FALSE
    /\ q' = [i \in Queries |-> "idle"]
    /\ results' = [i \in Queries |-> <<>>]
    /\ fetchP' = "none"
    /\ data' = <<>>
    /\ synthIn' = <<>>
    /\ wrote' = FALSE
    /\ clientOpen' = FALSE
    /\ UNCHANGED cache
    /\ UNCHANGED notSync

Next ==
    \/ GetConn
    \/ ConnectOk
    \/ ConnectFail
    \/ \E i \in Queries : QueryOk(i)
    \/ \E i \in Queries : QueryFail(i)
    \/ FetchFulfilled
    \/ FetchRejected
    \/ ToastShown
    \/ ToastFailed
    \/ Finally
    \/ Cancel
    \/ Relaunch

Spec == Init /\ [][Next]_vars

-----------------------------------------------------------------------------
(* The synthesizer on its own: a snapshot as the reader returns it and a    *)
(* snapshot with the same rows in an arbitrary order.                       *)

\* The snapshots built from one choice of row sequence per collection.
SnapshotsOf(R(_)) ==
    {[tables |-> t, columns |-> c, enums |-> e, primaryKeys |-> p,
      uniques |-> u, foreignKeys |-> f, indexes |-> x]
       : t \in R(1), c \in R(2), e \in R(3), p \in R(4), u \in R(5),
         f \in R(6), x \in R(7)}

\* The snapshots fetchSchemaData can return for a catalog.
ReaderSnapshots(cat) ==
    LET R(i) == QueryRows(i, cat) IN SnapshotsOf(R)

RowSet(i, cat) == Range(CHOOSE p \in QueryRows(i, cat) : TRUE)

\* The same rows, each collection in any order.
PermutedSnapshots(cat) ==
    LET R(i) == Perms(RowSet(i, cat)) IN SnapshotsOf(R)

\* Snapshots no consistent catalog yields, which buildSchemaDdl must still
\* handle: a foreign-key group whose referenced column is missing in one row,
\* next to a well-formed group of the same relation.
KeyRow(s, t, n, c, pos) ==
    [table_schema |-> s, table_name |-> t, constraint_name |-> n,
     column_name |-> c, ordinal_position |-> pos]

ForeignKeyRow(s, t, c, pos, n, rs, rt, rc) ==
    [table_schema |-> s, table_name |-> t, column_name |-> c,
     ordinal_position |-> pos, constraint_name |-> n, ref_table_schema |-> rs,
     ref_table_name |-> rt, ref_column_name |-> rc]

IntColumn(s, t, c, pos) ==
    ColumnRow(s, t, c, pos, "integer", PgCatalog, <<"int4">>, "YES", NULL,
              NULLNUM, NULLNUM, NULLNUM)

SnapInconsistent ==
    [tables |-> <<TableRow(Public, <<"orders">>, "BASE TABLE"),
                  TableRow(Sales, <<"items">>, "BASE TABLE")>>,
     columns |-> <<IntColumn(Public, <<"orders">>, "id", 1),
                   IntColumn(Sales, <<"items">>, "order_id", 1),
                   IntColumn(Sales, <<"items">>, "line_no", 2)>>,
     enums |-> <<>>,
     primaryKeys |-> <<KeyRow(Public, <<"orders">>, "orders_pkey", "id", 1)>>,
     uniques |-> <<>>,
     foreignKeys |-> <<
        ForeignKeyRow(Sales, <<"items">>, "order_id", 1, "fk_items_orders",
                      Public, <<"orders">>, "id"),
        ForeignKeyRow(Sales, <<"items">>, "line_no", 2, "fk_items_orders",
                      Public, <<"orders">>, NULL),
        ForeignKeyRow(Sales, <<"items">>, "order_id", 1, "fk_ok",
                      Public, <<"orders">>, "id")>>,
     indexes |-> <<>>]

\* A view with primary-key, unique and foreign-key rows, a relation without
\* columns, and column, unique and index rows of a relation that has no row
\* in the relation set.
SnapIrregular ==
    [tables |-> <<TableRow(Public, <<"users">>, "BASE TABLE"),
                  TableRow(Public, <<"v">>, "VIEW"),
                  TableRow(Public, <<"a", ".", "b">>, "BASE TABLE")>>,
     columns |-> <<IntColumn(Public, <<"users">>, "id", 1),
                   IntColumn(Public, <<"v">>, "id", 1),
                   IntColumn(Public, <<"v">>, "name", 2),
                   IntColumn(Public, <<"ft">>, "id", 1)>>,
     enums |-> <<>>,
     primaryKeys |-> <<KeyRow(Public, <<"users">>, "users_pkey", "id", 1),
                       KeyRow(Public, <<"v">>, "v_pkey", "id", 1)>>,
     uniques |-> <<KeyRow(Public, <<"v">>, "v_uq", "name", 1),
                   KeyRow(Public, <<"ft">>, "uq_name", "id", 1)>>,
     foreignKeys |-> <<
        ForeignKeyRow(Public, <<"v">>, "id", 1, "v_fk",
                      Public, <<"users">>, "id")>>,
     indexes |-> <<
        IndexRow(Public, <<"ft">>, "users_name_idx",
                 "CREATE INDEX users_name_idx ON public.ft (id)")>>]

CraftedSnapshots == {SnapInconsistent, SnapIrregular}

\* The rows of a snapshot, each collection in any order.
PermutedOf(snap) ==
    LET R(i) == Perms(Range(CASE i = 1 -> snap.tables
                              [] i = 2 -> snap.columns
                              [] i = 3 -> snap.enums
                              [] i = 4 -> snap.primaryKeys
                              [] i = 5 -> snap.uniques
                              [] i = 6 -> snap.foreignKeys
                              [] i = 7 -> snap.indexes))
    IN  SnapshotsOf(R)

InitSynth ==
    /\ ExploreIdle
    /\ conn = ""
    /\ Fresh
    /\ cache = NoFile
    /\ cacheBefore = NoFile
    /\ attempts = 1
    /\ \/ /\ catalog \in Catalogs
          /\ snapA \in ReaderSnapshots(catalog)
          /\ snapB \in PermutedSnapshots(catalog)
       \/ /\ catalog = CatEmpty
          /\ snapA \in CraftedSnapshots
          /\ snapB \in PermutedOf(snapA)
    /\ outA = <<>>
    /\ outB = <<>>
    /\ FilterIdle
    /\ CredIdle
    /\ RegIdle
    /\ MigIdle
    /\ RulesIdle

SynthA ==
    /\ outA = <<>>
    /\ outA' = <<buildSchemaDdl(snapA)>>
    /\ UNCHANGED <<snapA, snapB, outB>>
    /\ UNCHANGED notSynth

SynthB ==
    /\ outB = <<>>
    /\ outB' = <<buildSchemaDdl(snapB)>>
    /\ UNCHANGED <<snapA, snapB, outA>>
    /\ UNCHANGED notSynth

NextSynth == SynthA \/ SynthB

SpecSynth == InitSynth /\ [][NextSynth]_vars

-----------------------------------------------------------------------------
(* Properties of the catalog read and of the sync attempt (Spec).           *)

\* C1: fetchSchemaData is all-or-nothing.  A SchemaData is returned only when
\* all seven queries succeeded; as soon as one query has failed the read is
\* rejected and no SchemaData exists, whatever the other queries returned.
FetchAllOrNothing ==
    /\ data # <<>> =>
         /\ fetchP = "fulfilled"
         /\ \A i \in Queries : q[i] = "ok"
    /\ (\E i \in Queries : q[i] = "failed") =>
         /\ fetchP = "rejected"
         /\ data = <<>>

\* One query failed after others had succeeded: the read is rejected.
FetchFailedAfterSuccesses ==
    /\ fetchP = "rejected"
    /\ \E i, j \in Queries : q[i] = "failed" /\ q[j] = "ok"
    /\ data = <<>>

\* C2: an attempt in which connecting or a catalog query failed does not
\* write the cache: the file holds what it held when the attempt started.
FailedSyncKeepsCache ==
    (connP = "rejected" \/ fetchP = "rejected") =>
        /\ ~ wrote
        /\ cache = cacheBefore

\* A sync failed on a query while an earlier sync's cache was on disk.
FailedSyncWithOldCache ==
    /\ state = "error"
    /\ fetchP = "rejected"
    /\ cacheBefore # NoFile
    /\ cache = cacheBefore

\* C3: the SchemaData the read returns exists only once all seven queries
\* have succeeded and holds in every field the rows its own query returned;
\* buildSchemaDdl is invoked, at most once per attempt, with that SchemaData.
SynthAfterAllQueries ==
    /\ data # <<>> =>
        /\ \A i \in Queries :
             q[i] = "ok" /\ Rows(results[i]) \in QueryRows(i, catalog)
        /\ data[1].tables = Rows(results[1])
        /\ data[1].columns = Rows(results[2])
        /\ data[1].enums = Rows(results[3])
        /\ data[1].primaryKeys = Rows(results[4])
        /\ data[1].uniques = Rows(results[5])
        /\ data[1].foreignKeys = Rows(results[6])
        /\ data[1].indexes = Rows(results[7])
    /\ synthIn # <<>> =>
        /\ Len(synthIn) = 1
        /\ data # <<>>
        /\ synthIn[1] = data[1]

\* The synthesizer received a snapshot with rows in several collections.
SynthInvokedOnRows ==
    /\ synthIn # <<>>
    /\ synthIn[1].tables # <<>>
    /\ synthIn[1].columns # <<>>
    /\ synthIn[1].foreignKeys # <<>>

\* C4 as stated: a sync cancelled while the read is in flight has its read
\* return failure.  (The effect returned at the check after the read, so the
\* cancellation came while the read was in flight.)
CancelledReadFails ==
    (cancelled /\ pc = "finally" /\ fetchP # "none" /\ synthIn = <<>>) =>
        fetchP = "rejected"

\* C4 as amended: once the sync is cancelled, no snapshot is handed to the
\* synthesizer and the cache is not written for the rest of the attempt, and
\* a SchemaData the read still returns is never partial.
CancelledSyncDiscardsRead ==
    [][(cancelled /\ attempts' = attempts) =>
         /\ synthIn' = synthIn
         /\ cache' = cache
         /\ (data' # <<>> => \A i \in Queries : q'[i] = "ok")]_vars

\* A cancelled sync whose read nevertheless completed with all seven results.
CancelledReadCompleted ==
    /\ cancelled
    /\ pc = "finally"
    /\ fetchP = "fulfilled"
    /\ data # <<>>
    /\ synthIn = <<>>
    /\ ~ wrote

\* C5: after a successful sync the cache has exactly one entry per key of the
\* DDL mapping; the entry of key k holds the DDL text of k, the kind of k and
\* as schema the part of k before its first separator, which is the schema of
\* the relation k names.
CacheMatchesSynthesis ==
    wrote =>
        LET built == buildSchemaDdl(synthIn[1])
            tables == cache[1].tables
        IN  /\ DOMAIN tables = DOMAIN built.tableDdls
            /\ \A k \in DOMAIN tables :
                 LET n == Len(tables[k].schema) IN
                 /\ tables[k].ddl = built.tableDdls[k]
                 /\ tables[k].type = built.tableTypes[k]
                 /\ n < Len(k)
                 /\ SubSeq(k, 1, n) = tables[k].schema
                 /\ k[n + 1] = "."
                 /\ \A i \in 1..n : k[i] # "."
                 /\ \E i \in 1..Len(synthIn[1].tables) :
                      /\ synthIn[1].tables[i].table_schema = tables[k].schema
                      /\ Qualified(tables[k].schema,
                                   synthIn[1].tables[i].table_name) = k

\* A sync cached a relation whose key has more than one separator.
CachedDottedRelation ==
    /\ wrote
    /\ state = "success"
    /\ <<"public", ".", "a", ".", "b">> \in DOMAIN cache[1].tables
    /\ <<"public", ".", "v">> \in DOMAIN cache[1].tables

\* C6: the foreign-key rows of one constraint are one row per key column, the
\* row at ordinal position i pairing local column i with referenced column i.
ForeignKeyRowsPairPositionally ==
    q[6] = "ok" =>
        \A c \in {d \in catalog.constraints : d.type = "FOREIGN KEY"} :
            LET group == {r \in Range(Rows(results[6])) :
                            /\ r.table_schema = c.schema
                            /\ r.table_name = c.table
                            /\ r.constraint_name = c.name}
            IN  /\ Cardinality(group) = Len(c.cols)
                /\ \A r \in group :
                     /\ r.column_name = c.cols[r.ordinal_position]
                     /\ r.ref_column_name =
                          Referenced(catalog, c).cols[r.ordinal_position]

-----------------------------------------------------------------------------
(* Properties of the synthesizer (SpecSynth).                               *)

RelationsOf(snap) == {snap.tables[i] : i \in 1..Len(snap.tables)}

DdlOf(out, t) == out[1].tableDdls[Qualified(t.table_schema, t.table_name)]

\* The column definition lines of a DDL text and the column each one names.
IsColumnLine(line) == line[1] = "  "
ColumnLines(ddl) == SelectSeq(ddl, IsColumnLine)
ColumnRowsOf(snap, t) ==
    {r \in Range(snap.columns) :
        r.table_schema = t.table_schema /\ r.table_name = t.table_name}

\* C7: two snapshots with the same rows in different row orders synthesize to
\* the same DDL mapping.
SynthesisIgnoresRowOrder ==
    (outA # <<>> /\ outB # <<>>) => outA[1].tableDdls = outB[1].tableDdls

\* C8: the column lines of every relation's DDL are its column rows, in
\* strictly ascending ordinal position.
ColumnsInOrdinalOrder ==
    outB # <<>> =>
        \A t \in RelationsOf(snapB) :
            LET lines == ColumnLines(DdlOf(outB, t))
                rows == ColumnRowsOf(snapB, t)
                Pos(name) == (CHOOSE r \in rows : r.column_name = name).ordinal_position
            IN  /\ Len(lines) = Cardinality(rows)
                /\ \A j \in 1..Len(lines) :
                     \E r \in rows : r.column_name = lines[j][2]
                /\ \A j \in 1..(Len(lines) - 1) :
                     Pos(lines[j][2]) < Pos(lines[j + 1][2])

\* The column rows of some relation arrived out of ordinal order.
ColumnsArrivedOutOfOrder ==
    /\ outB # <<>>
    /\ \E i, j \in 1..Len(snapB.columns) :
         /\ i < j
         /\ snapB.columns[i].table_schema = snapB.columns[j].table_schema
         /\ snapB.columns[i].table_name = snapB.columns[j].table_name
         /\ snapB.columns[i].ordinal_position > snapB.columns[j].ordinal_position
         /\ \E t \in RelationsOf(snapB) :
              /\ t.table_schema = snapB.columns[i].table_schema
              /\ t.table_name = snapB.columns[i].table_name

\* The labels a column line lists between its parentheses.
FirstIndex(line, tok) ==
    CHOOSE i \in 1..Len(line) :
        line[i] = tok /\ \A j \in 1..(i - 1) : line[j] # tok
ListedLabels(line) ==
    SubSeq(line, FirstIndex(line, "(") + 1, FirstIndex(line, ")") - 1)
EnumRowsOf(snap, c) ==
    {e \in Range(snap.enums) :
        e.nspname = c.udt_schema /\ e.typname = c.udt_name}

\* C9: a column whose user-defined type is a known enum lists exactly that
\* enum's labels, in strictly ascending sort order.
EnumLabelsInSortOrder ==
    outB # <<>> =>
        \A t \in RelationsOf(snapB) :
          \A c \in ColumnRowsOf(snapB, t) :
            EnumRowsOf(snapB, c) # {} =>
              \E j \in 1..Len(ColumnLines(DdlOf(outB, t))) :
                LET line == ColumnLines(DdlOf(outB, t))[j]
                    labels == ListedLabels(line)
                    Ord(l) == (CHOOSE e \in EnumRowsOf(snapB, c) :
                                 e.enumlabel = l).enumsortorder
                IN  /\ line[2] = c.column_name
                    /\ line[3] = "enum"
                    /\ Len(labels) = Cardinality(EnumRowsOf(snapB, c))
                    /\ \A k \in 1..Len(labels) :
                         \E e \in EnumRowsOf(snapB, c) : e.enumlabel = labels[k]
                    /\ \A k \in 1..(Len(labels) - 1) :
                         Ord(labels[k]) < Ord(labels[k + 1])

\* The enum label rows arrived in descending sort order and an enum column
\* was synthesized.
EnumRowsArrivedReversed ==
    /\ outB # <<>>
    /\ Len(snapB.enums) = 2
    /\ snapB.enums[1].enumsortorder > snapB.enums[2].enumsortorder
    /\ \E t \in RelationsOf(snapB) :
         \E c \in ColumnRowsOf(snapB, t) : EnumRowsOf(snapB, c) # {}

\* C10: the kind mapping has an entry for exactly the relations of the
\* snapshot, "table" for a base table and "view" otherwise, and every key of
\* the DDL mapping has a kind, so the cache assembly never falls back.
KindsClassified ==
    outB # <<>> =>
        /\ DOMAIN outB[1].tableTypes =
             {Qualified(t.table_schema, t.table_name) : t \in RelationsOf(snapB)}
        /\ DOMAIN outB[1].tableDdls \subseteq DOMAIN outB[1].tableTypes
        /\ \A t \in RelationsOf(snapB) :
             LET kind == outB[1].tableTypes[Qualified(t.table_schema, t.table_name)]
             IN  /\ t.table_type = "BASE TABLE" => kind = "table"
                 /\ t.table_type # "BASE TABLE" => kind = "view"
                 /\ TypeOrTable(outB[1].tableTypes,
                                Qualified(t.table_schema, t.table_name)) = kind

\* A snapshot with a base table and a view was synthesized.
TableAndViewSynthesized ==
    /\ outB # <<>>
    /\ \E t, v \in RelationsOf(snapB) :
         t.table_type = "BASE TABLE" /\ v.table_type = "VIEW"

\* The foreign-key groups of a snapshot whose local and referenced column
\* lists differ in length.
ForeignKeyGroupOf(snap, g) ==
    {r \in Range(snap.foreignKeys) :
        <<r.table_schema, r.table_name, r.constraint_name>> = g}
InconsistentGroups(snap) ==
    {g \in {<<r.table_schema, r.table_name, r.constraint_name>>
              : r \in Range(snap.foreignKeys)} :
        Cardinality({r \in ForeignKeyGroupOf(snap, g) : r.column_name # NULL})
          # Cardinality({r \in ForeignKeyGroupOf(snap, g) : r.ref_column_name # NULL})}
WithoutGroup(snap, g) ==
    LET Keep(r) == <<r.table_schema, r.table_name, r.constraint_name>> # g
    IN  [snap EXCEPT !.foreignKeys = SelectSeq(snap.foreignKeys, Keep)]
ClauseNames(ddl) ==
    {ddl[i][2] : i \in {j \in 1..Len(ddl) : ddl[j][1] = "  CONSTRAINT"}}

\* C12: synthesis of a snapshot with an inconsistent foreign-key group gives
\* a result, and it is the result for the snapshot without that group: the
\* group's clause is left out and every other line of every relation stays.
InconsistentGroupOnlyOmitted ==
    outB # <<>> =>
        \A g \in InconsistentGroups(snapB) :
            /\ outB[1] = buildSchemaDdl(WithoutGroup(snapB, g))
            /\ DOMAIN outB[1].tableDdls =
                 {Qualified(t.table_schema, t.table_name) : t \in RelationsOf(snapB)}
            /\ \A t \in RelationsOf(snapB) :
                 /\ Len(ColumnLines(DdlOf(outB, t)))
                      = Cardinality(ColumnRowsOf(snapB, t))
                 /\ (t.table_schema = g[1] /\ t.table_name = g[2]) =>
                      /\ g[3] \notin ClauseNames(DdlOf(outB, t))
                      /\ \A r \in Range(snapB.foreignKeys) :
                           (/\ r.table_schema = g[1] /\ r.table_name = g[2]
                            /\ <<g[1], g[2], r.constraint_name>>
                                 \notin InconsistentGroups(snapB))
                             => r.constraint_name \in ClauseNames(DdlOf(outB, t))

\* A snapshot with an inconsistent group and a consistent group of the same
\* relation was synthesized.
InconsistentGroupSynthesized ==
    /\ outB # <<>>
    /\ \E g \in InconsistentGroups(snapB) :
         \E r \in Range(snapB.foreignKeys) :
            /\ r.table_schema = g[1] /\ r.table_name = g[2]
            /\ r.constraint_name # g[3]
            /\ \E t \in RelationsOf(snapB) :
                 t.table_schema = g[1] /\ t.table_name = g[2]

\* C13: the DDL of a view is its header, its column lines and the closing
\* line, with no constraint clause, whatever constraint rows the snapshot has
\* for it; its kind is "view".
ViewsCarryOnlyColumns ==
    outB # <<>> =>
        \A t \in {r \in RelationsOf(snapB) : r.table_type = "VIEW"} :
            LET ddl == DdlOf(outB, t) IN
            /\ ClauseNames(ddl) = {}
            /\ \A i \in 1..Len(ddl) : "PRIMARY KEY" \notin Range(ddl[i])
                 /\ "UNIQUE" \notin Range(ddl[i])
                 /\ "FOREIGN KEY" \notin Range(ddl[i])
            /\ Len(ColumnLines(ddl)) = Cardinality(ColumnRowsOf(snapB, t))
            /\ outB[1].tableTypes[Qualified(t.table_schema, t.table_name)] = "view"

\* A view that has primary-key, unique and foreign-key rows was synthesized.
ViewWithConstraintRowsSynthesized ==
    /\ outB # <<>>
    /\ \E t \in RelationsOf(snapB) :
         /\ t.table_type = "VIEW"
         /\ \E r \in Range(snapB.primaryKeys) :
              r.table_schema = t.table_schema /\ r.table_name = t.table_name
         /\ \E r \in Range(snapB.uniques) :
              r.table_schema = t.table_schema /\ r.table_name = t.table_name
         /\ \E r \in Range(snapB.foreignKeys) :
              r.table_schema = t.table_schema /\ r.table_name = t.table_name

\* The (schema, relation) pairs that rows of the other collections name.
NamedByRows(snap) ==
    {<<r.table_schema, r.table_name>> :
        r \in Range(snap.columns) \cup Range(snap.primaryKeys)
                \cup Range(snap.uniques)}
      \cup {<<r.table_schema, r.table_name>> : r \in Range(snap.foreignKeys)}
      \cup {<<r.schemaname, r.tablename>> : r \in Range(snap.indexes)}

\* C14: the keys of the DDL mapping are exactly the qualified names of the
\* relation rows; rows of other collections naming a relation without a
\* relation row add no key, and a relation without column rows has an entry
\* with no column line.
DdlKeysAreRelations ==
    outB # <<>> =>
        /\ DOMAIN outB[1].tableDdls =
             {Qualified(t.table_schema, t.table_name) : t \in RelationsOf(snapB)}
        /\ \A n \in NamedByRows(snapB) :
             (\A t \in RelationsOf(snapB) :
                 <<t.table_schema, t.table_name>> # n)
               => Qualified(n[1], n[2]) \notin DOMAIN outB[1].tableDdls
        /\ \A t \in RelationsOf(snapB) :
             ColumnRowsOf(snapB, t) = {} =>
                 /\ Qualified(t.table_schema, t.table_name)
                      \in DOMAIN outB[1].tableDdls
                 /\ ColumnLines(DdlOf(outB, t)) = <<>>

\* A snapshot with rows of an absent relation and with a relation without
\* columns was synthesized.
OrphanRowsAndEmptyRelation ==
    /\ outB # <<>>
    /\ \E n \in NamedByRows(snapB) :
         \A t \in RelationsOf(snapB) : <<t.table_schema, t.table_name>> # n
    /\ \E t \in RelationsOf(snapB) : ColumnRowsOf(snapB, t) = {}

-----------------------------------------------------------------------------
(* Row order of the reader's collections (Spec).                           *)

\* Schema, relation and the secondary key of a row of collection i.
OrderKey(i, r) ==
    CASE i = 1 -> TextKey(r.table_schema) \o TextKey(r.table_name)
      [] i = 2 -> TextKey(r.table_schema) \o TextKey(r.table_name)
                    \o <<r.ordinal_position>>
      [] i = 3 -> TextKey(r.nspname) \o TextKey(r.typname)
                    \o <<r.enumsortorder>>
      [] i = 4 -> TextKey(r.table_schema) \o TextKey(r.table_name)
                    \o <<Rank(r.constraint_name), r.ordinal_position>>
      [] i = 5 -> TextKey(r.table_schema) \o TextKey(r.table_name)
                    \o <<Rank(r.constraint_name), r.ordinal_position>>
      [] i = 6 -> TextKey(r.table_schema) \o TextKey(r.table_name)
                    \o <<Rank(r.constraint_name), r.ordinal_position>>
      [] i = 7 -> TextKey(r.schemaname) \o TextKey(r.tablename)
                    \o <<Rank(r.indexname)>>

\* C15: every collection a query returned is strictly ascending by schema,
\* relation and its secondary key, so the catalog determines its row order.
CollectionsTotallyOrdered ==
    \A i \in Queries :
        q[i] = "ok" =>
            /\ \A k \in 1..(Len(Rows(results[i])) - 1) :
                 LexLess(OrderKey(i, Rows(results[i])[k]),
                         OrderKey(i, Rows(results[i])[k + 1]))
            /\ Cardinality(QueryRows(i, catalog)) = 1

-----------------------------------------------------------------------------
(* Exclusion-rule filter: isTableExcluded and filterTables (SpecFilter).   *)
(* A key or a pattern is a sequence of one-character strings.              *)

MaxItems == 2
MaxRules == 2

FilterKeys == {<<"a">>, <<"a", ".", "b">>, <<"b", ".", "a">>}

\* Patterns a rule may hold: literals, the regex metacharacters . * ^ $ and
\* texts that RegExp rejects ("*", "^*" have nothing to repeat, "(" is an
\* unterminated group), and the empty pattern.
FilterPatterns ==
    {<<>>, <<"a">>, <<".">>, <<"^", "b">>, <<"a", "$">>, <<"a", "*", "b">>,
     <<"*">>, <<"(">>}

RuleTypes == {"regex", "contains", "not_contains"}

FilterRules == [type : RuleTypes, pattern : FilterPatterns]

SeqsUpTo(S, n) == UNION {[1..k -> S] : k \in 0..n}

\* new RegExp(pattern) throws a SyntaxError for these patterns.
RegExpInvalid(p) ==
    \E i \in 1..Len(p) :
        \/ p[i] = "("
        \/ p[i] = "*" /\ (i = 1 \/ p[i - 1] \in {"*", "^", "$"})

\* Whether the pattern from position i matches the key from position j on.
RECURSIVE MatchAt(_, _, _, _)
MatchAt(p, i, key, j) ==
    IF i > Len(p) THEN TRUE
    ELSE IF p[i] = "^" THEN j = 1 /\ MatchAt(p, i + 1, key, j)
    ELSE IF p[i] = "$" THEN j = Len(key) + 1 /\ MatchAt(p, i + 1, key, j)
    ELSE IF i < Len(p) /\ p[i + 1] = "*"
      THEN \/ MatchAt(p, i + 2, key, j)
           \/ /\ j <= Len(key)
              /\ p[i] \in {".", key[j]}
              /\ MatchAt(p, i, key, j + 1)
    ELSE /\ j <= Len(key)
         /\ p[i] \in {".", key[j]}
         /\ MatchAt(p, i + 1, key, j + 1)

\* new RegExp(pattern).test(key) for a valid pattern: a match at any position.
RegExpTest(p, key) == \E j \in 1..(Len(key) + 1) : MatchAt(p, 1, key, j)

\* key.includes(pattern)
Includes(key, p) ==
    \E i \in 0..(Len(key) - Len(p)) : SubSeq(key, i + 1, i + Len(p)) = p

\* A variant of one loop iteration without the try/catch around the regex.
RuleStepUncaught(rule, key) ==
    CASE rule.type = "regex" ->
           IF RegExpInvalid(rule.pattern) THEN "throw"
           ELSE IF RegExpTest(rule.pattern, key) THEN "return" ELSE "next"
      [] rule.type = "contains" ->
           IF Includes(key, rule.pattern) THEN "return" ELSE "next"
      [] rule.type = "not_contains" ->
           IF ~ Includes(key, rule.pattern) THEN "return" ELSE "next"

\* One iteration of the loop of isTableExcluded: "return" for return true,
\* "next" for break, "throw" for an exception leaving the function.
RuleStep(rule, key) ==
    CASE rule.type = "regex" ->
           IF RegExpInvalid(rule.pattern) THEN "next"
           ELSE IF RegExpTest(rule.pattern, key) THEN "return" ELSE "next"
      [] rule.type = "contains" ->
           IF Includes(key, rule.pattern) THEN "return" ELSE "next"
      [] rule.type = "not_contains" ->
           IF ~ Includes(key, rule.pattern) THEN "return" ELSE "next"

\* The loop from rule i on; the result is the returned boolean, or raised.
RECURSIVE ExcludedFrom(_, _, _)
ExcludedFrom(key, rules, i) ==
    IF i > Len(rules) THEN [raised |-> FALSE, value |-> FALSE]
    ELSE LET step == RuleStep(rules[i], key)
         IN  CASE step = "return" -> [raised |-> FALSE, value |-> TRUE]
               [] step = "throw" -> [raised |-> TRUE, value |-> FALSE]
               [] step = "next" -> ExcludedFrom(key, rules, i + 1)

isTableExcluded(tableKey, rules) == ExcludedFrom(tableKey, rules, 1)

\* items.filter(...): the kept items in order; raised when a call raised.
filterTables(items, rules) ==
    IF Len(rules) = 0 THEN [raised |-> FALSE, value |-> items]
    ELSE LET Raises(item) == isTableExcluded(item.key, rules).raised
             Keep(item) == ~ isTableExcluded(item.key, rules).value
         IN  IF \E i \in 1..Len(items) : Raises(items[i])
               THEN [raised |-> TRUE, value |-> <<>>]
               ELSE [raised |-> FALSE, value |-> SelectSeq(items, Keep)]

InitFilter ==
    /\ ExploreIdle
    /\ SyncIdle
    /\ SynthIdle
    /\ CredIdle
    /\ RegIdle
    /\ MigIdle
    /\ RulesIdle
    /\ fItems \in SeqsUpTo([key : FilterKeys], MaxItems)
    /\ fRules \in SeqsUpTo(FilterRules, MaxRules)
    /\ fOut = <<>>

\* Explore Tables computes items = filterTables(allItems, exclusionRules).
FilterTables ==
    /\ fOut = <<>>
    /\ fOut' = <<filterTables(fItems, fRules)>>
    /\ UNCHANGED <<fItems, fRules>>
    /\ UNCHANGED notFilter

NextFilter == FilterTables

SpecFilter == InitFilter /\ [][NextFilter]_vars

\* A rule matches a key.
Occurs(p, key) ==
    \E a \in 0..Len(key) : \E b \in a..Len(key) : SubSeq(key, a + 1, b) = p
RuleMatches(rule, key) ==
    \/ /\ rule.type = "regex"
       /\ ~ RegExpInvalid(rule.pattern)
       /\ RegExpTest(rule.pattern, key)
    \/ rule.type = "contains" /\ Occurs(rule.pattern, key)
    \/ rule.type = "not_contains" /\ ~ Occurs(rule.pattern, key)
SomeRuleMatches(key) == \E i \in 1..Len(fRules) : RuleMatches(fRules[i], key)
KeptIndexes == {i \in 1..Len(fItems) : ~ SomeRuleMatches(fItems[i].key)}

\* C16: isTableExcluded is true exactly when some rule matches and never
\* raises; filterTables returns the items no rule matches, in their order,
\* and the input itself when there is no rule.
FilterKeepsUnmatchedItems ==
    fOut # <<>> =>
        /\ \A i \in 1..Len(fItems) :
             isTableExcluded(fItems[i].key, fRules)
               = [raised |-> FALSE, value |-> SomeRuleMatches(fItems[i].key)]
        /\ ~ fOut[1].raised
        /\ Len(fOut[1].value) = Cardinality(KeptIndexes)
        /\ \A k \in 1..Len(fOut[1].value) :
             \E i \in KeptIndexes :
                /\ Cardinality({j \in KeptIndexes : j <= i}) = k
                /\ fOut[1].value[k] = fItems[i]
        /\ (fRules = <<>> => fOut[1].value = fItems)

\* Items were filtered by an invalid regex rule followed by a matching rule:
\* one item was kept and one was dropped.
FilteredPastInvalidRegex ==
    /\ fOut # <<>>
    /\ Len(fRules) = 2
    /\ fRules[1].type = "regex" /\ RegExpInvalid(fRules[1].pattern)
    /\ Len(fItems) = 2
    /\ Len(fOut[1].value) = 1

-----------------------------------------------------------------------------
(* Connection string: LocalStorage value and preference (SpecCred).        *)
(* A string is a sequence of one-character strings; <<>> is "".            *)

MaxConnLen == 3

ConnStrings == SeqsUpTo({" ", "x"}, MaxConnLen)

\* String.prototype.trim
RECURSIVE TrimStart(_)
TrimStart(s) ==
    IF s # <<>> /\ Head(s) = " " THEN TrimStart(Tail(s)) ELSE s
RECURSIVE TrimEnd(_)
TrimEnd(s) ==
    IF s # <<>> /\ s[Len(s)] = " " THEN TrimEnd(SubSeq(s, 1, Len(s) - 1))
    ELSE s
Trim(s) == TrimEnd(TrimStart(s))

\* A variant that reads the preference before the stored value.
getConnectionStringPrefsFirst(fromStorage, preference) ==
    IF preference # <<>> /\ Trim(preference[1]) # <<>>
      THEN Trim(preference[1])
    ELSE IF fromStorage # <<>> THEN Trim(fromStorage[1]) ELSE <<>>

\* fromStorage: <<>> when LocalStorage has no item, else <<value>>;
\* preference: <<>> when prefs.connectionString is undefined, else <<value>>.
getConnectionString(fromStorage, preference) ==
    IF fromStorage # <<>> /\ fromStorage[1] # <<>> /\ Trim(fromStorage[1]) # <<>>
      THEN Trim(fromStorage[1])
    ELSE IF preference # <<>> THEN Trim(preference[1]) ELSE <<>>

InitCred ==
    /\ ExploreIdle
    /\ SyncIdle
    /\ SynthIdle
    /\ FilterIdle
    /\ RegIdle
    /\ MigIdle
    /\ RulesIdle
    /\ stored = <<>>
    /\ prefs \in {<<>>} \cup {<<v>> : v \in ConnStrings}
    /\ credOp = <<>>
    /\ lastGet = <<>>

\* setConnectionString(value)
SetConnectionString ==
    \E value \in ConnStrings :
        /\ stored' = <<Trim(value)>>
        /\ credOp' = <<"set", value>>
        /\ lastGet' = <<>>
        /\ UNCHANGED prefs
        /\ UNCHANGED notCred

\* Set Credentials, onSubmit: a blank value is refused, another is stored.
SubmitCredentials ==
    \E value \in ConnStrings :
        LET trimmed == Trim(value) IN
        /\ trimmed # <<>>
        /\ stored' = <<Trim(trimmed)>>
        /\ credOp' = <<"submit", value>>
        /\ lastGet' = <<>>
        /\ UNCHANGED prefs
        /\ UNCHANGED notCred

\* clearConnectionString()
ClearConnectionString ==
    /\ stored' = <<>>
    /\ credOp' = <<"clear">>
    /\ lastGet' = <<>>
    /\ UNCHANGED prefs
    /\ UNCHANGED notCred

\* getConnectionString()
GetConnectionString ==
    /\ lastGet = <<>>
    /\ lastGet' = <<getConnectionString(stored, prefs)>>
    /\ UNCHANGED <<stored, prefs, credOp>>
    /\ UNCHANGED notCred

NextCred ==
    \/ SetConnectionString
    \/ SubmitCredentials
    \/ ClearConnectionString
    \/ GetConnectionString

SpecCred == InitCred /\ [][NextCred]_vars

Blank(s) == \A i \in 1..Len(s) : s[i] = " "
PreferenceOrEmpty == IF prefs = <<>> THEN <<>> ELSE Trim(prefs[1])

\* C17: a read returns the trimmed stored value when it is not blank, else
\* the trimmed preference, else ""; after a set or a submit of a non-blank
\* value it returns that value trimmed whatever the preference, and after a
\* clear it returns the preference or "".
StoredValueWinsOverPreference ==
    lastGet # <<>> =>
        /\ (stored # <<>> /\ ~ Blank(stored[1])) => lastGet[1] = Trim(stored[1])
        /\ (stored = <<>> \/ Blank(stored[1])) => lastGet[1] = PreferenceOrEmpty
        /\ (credOp # <<>> /\ credOp[1] \in {"set", "submit"} /\ ~ Blank(credOp[2]))
             => lastGet[1] = Trim(credOp[2])
        /\ (credOp # <<>> /\ credOp[1] = "clear") => lastGet[1] = PreferenceOrEmpty
        /\ ~ (credOp # <<>> /\ credOp[1] = "submit" /\ Blank(credOp[2]))

\* A value with surrounding blanks was set while a different preference
\* exists, and then read.
ReadAfterSetWithPreference ==
    /\ lastGet # <<>>
    /\ credOp # <<>> /\ credOp[1] = "set"
    /\ ~ Blank(credOp[2]) /\ Trim(credOp[2]) # credOp[2]
    /\ prefs # <<>> /\ ~ Blank(prefs[1]) /\ Trim(prefs[1]) # Trim(credOp[2])

-----------------------------------------------------------------------------
(* Database registry: addDatabase, removeDatabase, setDefaultDatabase      *)
(* called one after another (SpecReg). An id is a positive number, the     *)
(* n-th id generateDbId returned; NULLID is a null defaultId.              *)

MaxDbs == 4

NULLID == 0

EmptyRegistry == [databases |-> <<>>, defaultId |-> NULLID]

\* file: <<>> when registry.json does not exist, else <<content>>.
readRegistry(file) == IF file = <<>> THEN EmptyRegistry ELSE file[1]

writeRegistry(reg) == <<reg>>

generateDbId(n) == n + 1

StoredDatabase(id, isDefault) == [id |-> id, isDefault |-> isDefault]

\* reg.databases.find(d => d.id === id) ?? null, and databases[0] ?? null
FindDatabase(databases, id) ==
    LET hits == {i \in 1..Len(databases) : databases[i].id = id}
    IN  IF hits = {} THEN <<>>
        ELSE <<databases[CHOOSE i \in hits : \A j \in hits : i <= j]>>

getDefaultDatabaseSync(file) ==
    LET reg == readRegistry(file)
    IN  IF reg.defaultId # NULLID THEN FindDatabase(reg.databases, reg.defaultId)
        ELSE IF reg.databases = <<>> THEN <<>> ELSE <<reg.databases[1]>>

\* ensureMigratedAsync with nothing to migrate: it returns at once when the
\* registry file exists or the done flag is set, and sets the flag otherwise.
MigratedQuietly ==
    /\ doneFlag' = (doneFlag \/ registry = <<>>)
    /\ UNCHANGED <<mpc, mloc, legacyCache, cacheFiles, legacyRules, dbRules,
                   migrated>>

InitReg ==
    /\ ExploreIdle
    /\ SyncIdle
    /\ SynthIdle
    /\ FilterIdle
    /\ CredIdle
    /\ MigIdle
    /\ RulesIdle
    /\ registry = <<>>
    /\ nextId = 0

AddDatabase ==
    /\ nextId < MaxDbs
    /\ MigratedQuietly
    /\ LET reg == readRegistry(registry)
           id == generateDbId(nextId)
           nextDatabases == Append(reg.databases, StoredDatabase(id, FALSE))
           defaultId == IF reg.defaultId = NULLID /\ Len(nextDatabases) = 1
                          THEN id ELSE reg.defaultId
       IN  /\ registry' = writeRegistry([databases |-> nextDatabases,
                                         defaultId |-> defaultId])
           /\ nextId' = id
    /\ UNCHANGED notReg

\* id is any id a database ever had.
RemoveDatabase ==
    \E id \in 1..nextId :
        /\ MigratedQuietly
        /\ LET reg == readRegistry(registry)
               Other(d) == d.id # id
               databases == SelectSeq(reg.databases, Other)
               defaultId == IF reg.defaultId = id
                              THEN (IF databases = <<>> THEN NULLID
                                    ELSE databases[1].id)
                              ELSE reg.defaultId
           IN  registry' = writeRegistry([databases |-> databases,
                                          defaultId |-> defaultId])
        /\ UNCHANGED nextId
        /\ UNCHANGED notReg

SetDefaultDatabase ==
    \E id \in 1..nextId :
        /\ MigratedQuietly
        /\ LET reg == readRegistry(registry)
               databases == [i \in 1..Len(reg.databases) |->
                               StoredDatabase(reg.databases[i].id,
                                              reg.databases[i].id = id)]
           IN  registry' = writeRegistry([databases |-> databases,
                                          defaultId |-> id])
        /\ UNCHANGED nextId
        /\ UNCHANGED notReg

NextReg == AddDatabase \/ RemoveDatabase \/ SetDefaultDatabase

SpecReg == InitReg /\ [][NextReg]_vars

\* C18: the registry's defaultId is null only when the registry has no
\* database, and otherwise is the id of a database of the registry, which
\* getDefaultDatabaseSync returns.
DefaultIdNamesADatabase ==
    LET reg == readRegistry(registry) IN
    /\ reg.defaultId = NULLID => reg.databases = <<>>
    /\ reg.defaultId # NULLID =>
         /\ \E i \in 1..Len(reg.databases) : reg.databases[i].id = reg.defaultId
         /\ getDefaultDatabaseSync(registry) # <<>>
         /\ getDefaultDatabaseSync(registry)[1].id = reg.defaultId

-----------------------------------------------------------------------------
(* Legacy migration: concurrent ensureMigratedAsync calls (SpecMig).       *)
(* A call runs from one await to the next without interruption.            *)

NumCalls == 2

Calls == 1..NumCalls

NoLocals == [connectionString |-> <<>>, hasOldCache |-> FALSE, id |-> NULLID]

InitMig ==
    /\ ExploreIdle
    /\ SyncIdle
    /\ SynthIdle
    /\ FilterIdle
    /\ RulesIdle
    /\ RegIdle
    /\ stored \in {<<>>, << <<"x">> >>}
    /\ prefs = <<>>
    /\ credOp = <<>>
    /\ lastGet = <<>>
    /\ legacyCache \in BOOLEAN
    /\ legacyRules \in BOOLEAN
    /\ cacheFiles = {}
    /\ doneFlag = FALSE
    /\ dbRules = {}
    /\ migrated = {}
    /\ mpc = [c \in Calls |-> "start"]
    /\ mloc = [c \in Calls |-> NoLocals]

\* The call starts: it returns when the registry file exists, and otherwise
\* awaits the done flag.
MigStart(c) ==
    /\ mpc[c] = "start"
    /\ mpc' = [mpc EXCEPT ![c] = IF registry # <<>> THEN "returned"
                                 ELSE "awaitDone"]
    /\ UNCHANGED <<mloc, legacyCache, cacheFiles, doneFlag, legacyRules,
                   dbRules, migrated, regVars>>
    /\ UNCHANGED notReg

\* The done flag arrived: the call returns when it is set, and otherwise
\* awaits the legacy connection string.
MigGotDone(c) ==
    /\ mpc[c] = "awaitDone"
    /\ mpc' = [mpc EXCEPT ![c] = IF doneFlag THEN "returned" ELSE "awaitConn"]
    /\ UNCHANGED <<mloc, legacyCache, cacheFiles, doneFlag, legacyRules,
                   dbRules, migrated, regVars>>
    /\ UNCHANGED notReg

\* The legacy connection string arrived: the call falls back to the
\* preference, looks for the legacy cache file and awaits the legacy rules.
MigGotConnection(c) ==
    /\ mpc[c] = "awaitConn"
    /\ mloc' = [mloc EXCEPT ![c] =
                  [connectionString |-> getConnectionString(stored, prefs),
                   hasOldCache |-> legacyCache,
                   id |-> NULLID]]
    /\ mpc' = [mpc EXCEPT ![c] = "awaitRules"]
    /\ UNCHANGED <<legacyCache, cacheFiles, doneFlag, legacyRules, dbRules,
                   migrated, regVars>>
    /\ UNCHANGED notReg

\* The legacy rules arrived: the call decides whether to migrate; when it
\* does it writes the registry and copies and removes the legacy cache file
\* (copyFileSync throws when the file is gone), then awaits the next write.
MigGotRules(c) ==
    /\ mpc[c] = "awaitRules"
    /\ LET shouldMigrate == \/ mloc[c].connectionString # <<>>
                            \/ mloc[c].hasOldCache
                            \/ legacyRules
           id == generateDbId(nextId)
           copyThrows == mloc[c].hasOldCache /\ ~ legacyCache
       IN  IF ~ shouldMigrate
             THEN /\ doneFlag' = TRUE
                  /\ mpc' = [mpc EXCEPT ![c] = "awaitSetDone"]
                  /\ UNCHANGED <<mloc, legacyCache, cacheFiles, migrated,
                                 regVars>>
             ELSE /\ nextId' = id
                  /\ mloc' = [mloc EXCEPT ![c].id = id]
                  /\ registry' = writeRegistry(
                                   [databases |-> <<StoredDatabase(id, TRUE)>>,
                                    defaultId |-> id])
                  /\ migrated' = migrated \cup {id}
                  /\ cacheFiles' = IF mloc[c].hasOldCache /\ legacyCache
                                     THEN cacheFiles \cup {id} ELSE cacheFiles
                  /\ legacyCache' = (legacyCache /\ ~ mloc[c].hasOldCache)
                  /\ doneFlag' = (doneFlag \/ (~ copyThrows /\ ~ legacyRules))
                  /\ mpc' = [mpc EXCEPT ![c] =
                               IF copyThrows THEN "failed"
                               ELSE IF legacyRules THEN "awaitRulesSet"
                               ELSE "awaitSetDone"]
    /\ UNCHANGED <<legacyRules, dbRules>>
    /\ UNCHANGED notReg

\* The legacy rules were stored for the migrated database; the call sets
\* the done flag.
MigRulesSet(c) ==
    /\ mpc[c] = "awaitRulesSet"
    /\ dbRules' = dbRules \cup {mloc[c].id}
    /\ doneFlag' = TRUE
    /\ mpc' = [mpc EXCEPT ![c] = "awaitSetDone"]
    /\ UNCHANGED <<mloc, legacyCache, cacheFiles, legacyRules, migrated,
                   regVars>>
    /\ UNCHANGED notReg

\* The done flag was stored; the call returns.
MigReturn(c) ==
    /\ mpc[c] = "awaitSetDone"
    /\ mpc' = [mpc EXCEPT ![c] = "returned"]
    /\ UNCHANGED <<mloc, legacyCache, cacheFiles, doneFlag, legacyRules,
                   dbRules, migrated, regVars>>
    /\ UNCHANGED notReg

NextMig ==
    \E c \in Calls :
        \/ MigStart(c)
        \/ MigGotDone(c)
        \/ MigGotConnection(c)
        \/ MigGotRules(c)
        \/ MigRulesSet(c)
        \/ MigReturn(c)

SpecMig == InitMig /\ [][NextMig]_vars

\* C19: at most one migrated database is ever written to the registry, no
\* call fails, and once every call is over a copied cache file bears the id
\* of the database of the registry.
MigrationRunsOnce ==
    mpc # <<>> =>
        /\ Cardinality(migrated) <= 1
        /\ \A c \in Calls : mpc[c] # "failed"
        /\ (\A c \in Calls : mpc[c] \in {"returned", "failed"}) =>
             \A d \in cacheFiles :
                FindDatabase(readRegistry(registry).databases, d) # <<>>

-----------------------------------------------------------------------------
(* Exclusion rules: concurrent addExclusionRule and removeExclusionRule    *)
(* calls (SpecRules). A rule is its id, the n-th id generateId returned.   *)

NumRuleCalls == 3

RuleCalls == 1..NumRuleCalls

NotCalled == [pc |-> "new", op |-> "none", id |-> 0, rules |-> <<>>]

InitRules ==
    /\ ExploreIdle
    /\ SyncIdle
    /\ SynthIdle
    /\ FilterIdle
    /\ CredIdle
    /\ RegIdle
    /\ MigIdle
    /\ ruleStore = <<>>
    /\ nextRule = 0
    /\ rcall = [c \in RuleCalls |-> NotCalled]

\* addExclusionRule is called: it awaits getExclusionRules().
AddRuleCalled(c) ==
    /\ rcall[c].pc = "new"
    /\ rcall' = [rcall EXCEPT ![c] = [NotCalled EXCEPT !.pc = "awaitGet",
                                                       !.op = "add"]]
    /\ UNCHANGED <<ruleStore, nextRule>>
    /\ UNCHANGED notRules

\* removeExclusionRule(id) is called for a rule of the stored list (the
\* list shows the stored rules); it awaits getExclusionRules().
RemoveRuleCalled(c) ==
    /\ rcall[c].pc = "new"
    /\ \E i \in 1..Len(ruleStore) :
         rcall' = [rcall EXCEPT ![c] = [NotCalled EXCEPT !.pc = "awaitGet",
                                                         !.op = "remove",
                                                         !.id = ruleStore[i]]]
    /\ UNCHANGED <<ruleStore, nextRule>>
    /\ UNCHANGED notRules

\* getExclusionRules() returned the stored list: the call pushes a new rule
\* or filters the removed one out, and awaits setItem of its list.
RulesRead(c) ==
    /\ rcall[c].pc = "awaitGet"
    /\ IF rcall[c].op = "add"
         THEN /\ nextRule' = nextRule + 1
              /\ rcall' = [rcall EXCEPT ![c].pc = "awaitSet",
                                        ![c].id = nextRule + 1,
                                        ![c].rules = Append(ruleStore, nextRule + 1)]
         ELSE /\ UNCHANGED nextRule
              /\ LET Other(r) == r # rcall[c].id
                 IN  rcall' = [rcall EXCEPT ![c].pc = "awaitSet",
                                            ![c].rules = SelectSeq(ruleStore, Other)]
    /\ UNCHANGED ruleStore
    /\ UNCHANGED notRules

\* setItem stored the call's list; the call returns.
RulesStored(c) ==
    /\ rcall[c].pc = "awaitSet"
    /\ ruleStore' = rcall[c].rules
    /\ rcall' = [rcall EXCEPT ![c].pc = "done"]
    /\ UNCHANGED nextRule
    /\ UNCHANGED notRules

NextRules ==
    \E c \in RuleCalls :
        \/ AddRuleCalled(c)
        \/ RemoveRuleCalled(c)
        \/ RulesRead(c)
        \/ RulesStored(c)

SpecRules == InitRules /\ [][NextRules]_vars

\* C20: once every call is over, the stored list has every rule that was
\* added and not removed, and no rule that was removed.
NoRuleUpdateLost ==
    (rcall # <<>> /\ \A c \in RuleCalls : rcall[c].pc \in {"new", "done"}) =>
        LET Added == {rcall[c].id : c \in {d \in RuleCalls :
                         rcall[d].pc = "done" /\ rcall[d].op = "add"}}
            Removed == {rcall[c].id : c \in {d \in RuleCalls :
                         rcall[d].pc = "done" /\ rcall[d].op = "remove"}}
        IN  /\ Added \ Removed \subseteq Range(ruleStore)
            /\ Removed \cap Range(ruleStore) = {}

-----------------------------------------------------------------------------
(* Multi-database Explore Tables: loads and database switches              *)
(* (SpecExplore). A database is its number; 0 is null, and the cache and   *)
(* the rules of a database are named by the database.                      *)

NumDbs == 3
MaxLoads == 4

Dbs == 1..NumDbs

\* loadDataForDb(dbId) is called: readSchemaCache(dbId) is read and
\* getExclusionRules(dbId) is awaited.
LoadStarted(dbId, fromInit) ==
    loads \cup {[n |-> loadCount + 1, db |-> dbId, init |-> fromInit]}

InitExplore ==
    /\ SyncIdle
    /\ SynthIdle
    /\ FilterIdle
    /\ CredIdle
    /\ RegIdle
    /\ MigIdle
    /\ RulesIdle
    /\ initState = "loading"
    /\ activeDbId = 0
    /\ shownCache = 0
    /\ shownRules = 0
    /\ loads = {}
    /\ loadCount = 0

\* Init effect, getDatabases() returned no database.
ExploreNoDatabases ==
    /\ initState = "loading"
    /\ loadCount = 0
    /\ initState' = "no-databases"
    /\ UNCHANGED <<activeDbId, shownCache, shownRules, loads, loadCount>>
    /\ UNCHANGED notExplore

\* Init effect, a database to select was found (the launch context's or the
\* default one): it becomes active and its data is loaded.
ExploreSelect ==
    /\ initState = "loading"
    /\ loadCount = 0
    /\ \E d \in Dbs :
         /\ activeDbId' = d
         /\ loads' = LoadStarted(d, TRUE)
    /\ loadCount' = loadCount + 1
    /\ UNCHANGED <<initState, shownCache, shownRules>>
    /\ UNCHANGED notExplore

\* Init effect, getDefaultDatabase() returned null.
ExplorePicking ==
    /\ initState = "loading"
    /\ loadCount = 0
    /\ initState' = "picking"
    /\ UNCHANGED <<activeDbId, shownCache, shownRules, loads, loadCount>>
    /\ UNCHANGED notExplore

\* Open Tables on a database of the picking list.
ExploreOpenTables ==
    /\ initState = "picking"
    /\ \E d \in Dbs :
         /\ activeDbId' = d
         /\ loads' = LoadStarted(d, FALSE)
    /\ loadCount' = loadCount + 1
    /\ initState' = "ready"
    /\ UNCHANGED <<shownCache, shownRules>>
    /\ UNCHANGED notExplore

\* onDatabaseChange(dbId): the dropdown of the ready view selects another
\* database.
ExploreDatabaseChange ==
    /\ initState = "ready"
    /\ activeDbId # 0
    /\ loadCount < MaxLoads
    /\ \E d \in Dbs \ {activeDbId} :
         /\ activeDbId' = d
         /\ loads' = LoadStarted(d, FALSE)
    /\ shownCache' = 0
    /\ shownRules' = 0
    /\ loadCount' = loadCount + 1
    /\ UNCHANGED initState
    /\ UNCHANGED notExplore

\* The continuation of loadDataForDb: setCache and setExclusionRules.
ShowLoaded(l) ==
    /\ shownCache' = l.db
    /\ shownRules' = l.db

\* A pending load settles; the loads settle in any order.
ExploreLoadSettled ==
    \E l \in loads :
        /\ ShowLoaded(l)
        /\ loads' = loads \ {l}
        /\ initState' = IF l.init THEN "ready" ELSE initState
        /\ UNCHANGED <<activeDbId, loadCount>>
        /\ UNCHANGED notExplore

NextExplore ==
    \/ ExploreNoDatabases
    \/ ExploreSelect
    \/ ExplorePicking
    \/ ExploreOpenTables
    \/ ExploreDatabaseChange
    \/ ExploreLoadSettled

SpecExplore == InitExplore /\ [][NextExplore]_vars

-----------------------------------------------------------------------------
(* State of a sync run against what the run did (Spec).                    *)

\* 'success' only after the cache was written from the complete snapshot.
SuccessMeansCacheWritten ==
    state = "success" =>
        /\ wrote
        /\ fetchP = "fulfilled"
        /\ \A i \in Queries : q[i] = "ok"
        /\ synthIn = <<data[1]>>
        /\ cache = writeSchemaCache(AssembleCache(buildSchemaDdl(data[1])))

\* 'error' only when the run did not write the cache.
ErrorMeansCacheNotWritten == state = "error" => ~ wrote

\* 'no-credentials' without a connection or a cache write, and a run ends
\* in it exactly when no connection string is configured.
NoCredentialsMeansNotConfigured ==
    /\ state = "no-credentials" =>
         /\ connP = "none"
         /\ ~ clientOpen
         /\ ~ wrote
         /\ pc = "returned"
    /\ pc = "returned" => (state = "no-credentials" <=> conn = "")

\* C22: a run is in 'success' only with the cache written in the run from a
\* complete snapshot, in 'error' only with the cache not written in the run,
\* ends in 'no-credentials' exactly when no connection string is
\* configured, and keeps its state once it is cancelled.
SyncStateTellsOutcome ==
    /\ [](/\ SuccessMeansCacheWritten
          /\ ErrorMeansCacheNotWritten
          /\ NoCredentialsMeansNotConfigured)
    /\ [][(cancelled /\ cancelled') => state' = state]_vars

====
